---- MODULE Spec2Model ----
(***************************************************************************)
(* Model of the plasticwatcha review workflow and offline submission queue *)
(*                                                                         *)
(*  - the Classification Engine: the PL/pgSQL procedures                   *)
(*    classify_contribution / reject_contribution, the is_admin() helper,  *)
(*    the tables contributions / classifications / review_history with     *)
(*    their constraints and row-level-security policies;                   *)
(*  - the Local Durable Queue (offline-queue) and the Sync Manager.        *)
(*                                                                         *)
(* SQL values are modelled as strings; the SQL NULL is the string "NULL"   *)
(* and SQL booleans are "true" / "false" / NULL (three-valued logic).      *)
(***************************************************************************)
EXTENDS Integers, Sequences, FiniteSets, TLC

\* ------------------------------------------------------------------------
\* Bounds of the model
\* ------------------------------------------------------------------------
\* review_history rows the model lets the database hold
MaxHistory == 3
\* direct (PostgREST) row-level statements the model lets callers issue
MaxRowOps == 2
\* submissions the model lets saveToOfflineQueue create
MaxItems == 2
\* failures of IndexedDB and network operations the model injects while
\* submissions and sync passes overlap
MaxFaults == 1
\* failures and crashes the model injects while submissions and sync passes
\* take turns
MaxPassFaults == 2

\* ------------------------------------------------------------------------
\* SQL three-valued logic
\* ------------------------------------------------------------------------
NULL == "NULL"

SqlEq(a, b) ==
  IF a = NULL \/ b = NULL THEN NULL
  ELSE IF a = b THEN "true" ELSE "false"

SqlNot(x) ==
  IF x = NULL THEN NULL
  ELSE IF x = "true" THEN "false" ELSE "true"

\* a NOT IN (list of non-null literals)
SqlNotIn(a, S) ==
  IF a = NULL THEN NULL
  ELSE IF a \in S THEN "false" ELSE "true"

\* PL/pgSQL IF, CASE WHEN and RLS USING / WITH CHECK take a branch (admit a
\* row) only when the condition is true; NULL counts as not true.
IsTrue(x) == x = "true"

\* ------------------------------------------------------------------------
\* Principals and identifiers
\* ------------------------------------------------------------------------
\* rows of auth.users
Users == {"u1", "u2", "u3"}

\* the claims of the caller's JWT: auth.uid(), app_metadata.role,
\* user_metadata.role (NULL when the claim is absent)
tkAppAdmin  == [uid |-> "u1", app_role |-> "admin", user_role |-> NULL]
tkUserAdmin == [uid |-> "u2", app_role |-> NULL,    user_role |-> "admin"]
tkUser      == [uid |-> "u3", app_role |-> "user",  user_role |-> "user"]
tkNoRole    == [uid |-> "u3", app_role |-> NULL,    user_role |-> NULL]
tkHalfRole  == [uid |-> "u3", app_role |-> "user",  user_role |-> NULL]
\* no session: getUser() yields no user
tkAnon      == [uid |-> NULL, app_role |-> NULL,    user_role |-> NULL]
Tokens == {tkAppAdmin, tkUserAdmin, tkUser, tkNoRole, tkHalfRole}

\* contribution ids callers may name; "c9" never exists
ContributionIds == {"c1", "c2", "c9"}
ExistingIds == {"c1", "c2"}

Statuses == {"pending", "classified", "rejected"}
ConfidenceLevels == {"high", "medium", "low"}
HistoryActions == {"classified", "rejected", "updated", "deleted", "reclassified"}

\* ------------------------------------------------------------------------
\* is_admin()  (security_hardening migration)
\* ------------------------------------------------------------------------
is_admin(jwt) ==
  IF IsTrue(SqlEq(jwt.app_role, "admin")) THEN "true"
  ELSE SqlEq(jwt.user_role, "admin")

\* ------------------------------------------------------------------------
\* State
\* ------------------------------------------------------------------------
VARIABLES
  refactored,       \* TRUE once refactor_contributions_schema has been applied
  contributions,    \* id -> row of table contributions
  classifications,  \* set of rows of table classifications
  nextClassId,      \* source of fresh classifications.id values
  review_history,   \* rows of table review_history, in order of insertion
  session,          \* database sessions running an engine procedure
  rowOps,           \* direct row-level statements issued so far, with the last outcome
  server,           \* the review server action in progress, with the last result
  idb,              \* object store 'contributions' of IndexedDB 'PlasticWatchDB': id -> item
  remote,           \* contribution records inserted remotely by the Sync Manager
  online,           \* navigator.onLine
  isSyncing,        \* sync-manager module flag
  pass,             \* invocations of syncQueue
  writer,           \* invocations of saveToOfflineQueue
  created,          \* local ids saveToOfflineQueue has returned
  nextId,           \* source of the next local id (Date.now() grows)
  faults,           \* failures of IndexedDB and network operations still to come
  syncListeners     \* sync-manager module variable: the progress subscribers

engineVars == <<refactored, contributions, classifications, nextClassId,
                review_history, session, rowOps, server>>
queueVars == <<idb, remote, online, isSyncing, pass, writer, created, nextId, faults,
              syncListeners>>
vars == <<refactored, contributions, classifications, nextClassId,
          review_history, session, rowOps, server,
          idb, remote, online, isSyncing, pass, writer, created, nextId, faults,
          syncListeners>>

Sessions == {"s1", "s2"}

\* marker for the value of a column the schema no longer has
DROPPED == "dropped"

\* ------------------------------------------------------------------------
\* Arguments of the engine procedures
\* ------------------------------------------------------------------------
NoArgs ==
  [p_contribution_id |-> NULL, p_admin_id |-> NULL, p_brand |-> NULL,
   p_manufacturer |-> NULL, p_plastic_type |-> NULL,
   p_confidence_level |-> NULL, p_reason |-> NULL]

\* verified fields a classify call may carry; p_confidence_level "medium"
\* is also what the DEFAULT supplies when the argument is omitted
ClassifyFields ==
  { [p_brand |-> "b1", p_manufacturer |-> "m1", p_plastic_type |-> NULL,
     p_confidence_level |-> "high"],
    [p_brand |-> "b2", p_manufacturer |-> "m2", p_plastic_type |-> "PET",
     p_confidence_level |-> "medium"],
    [p_brand |-> "b1", p_manufacturer |-> "m1", p_plastic_type |-> NULL,
     p_confidence_level |-> NULL],
    [p_brand |-> "b1", p_manufacturer |-> "m1", p_plastic_type |-> NULL,
     p_confidence_level |-> "urgent"],
    [p_brand |-> NULL, p_manufacturer |-> "m1", p_plastic_type |-> NULL,
     p_confidence_level |-> "low"] }

AdminIdArgs == {"u1", NULL}
ReasonArgs == {"r1", NULL}

ClassifyArgs ==
  { [NoArgs EXCEPT !.p_contribution_id = c, !.p_admin_id = a,
                   !.p_brand = f.p_brand, !.p_manufacturer = f.p_manufacturer,
                   !.p_plastic_type = f.p_plastic_type,
                   !.p_confidence_level = f.p_confidence_level] :
      c \in ContributionIds, a \in AdminIdArgs, f \in ClassifyFields }

RejectArgs ==
  { [NoArgs EXCEPT !.p_contribution_id = c, !.p_admin_id = a, !.p_reason = r] :
      c \in ContributionIds, a \in AdminIdArgs, r \in ReasonArgs }

NoRet == [success |-> FALSE, error |-> "none", previous_status |-> NULL,
          classification_id |-> 0]

Failure(msg) == [NoRet EXCEPT !.error = msg]

\* the row a SELECT ... INTO leaves when no row matches (all NULL)
NoContribution ==
  [user_id |-> NULL, status |-> NULL, classified_by |-> NULL, notes |-> NULL]

IdleSession ==
  [pc |-> "idle", op |-> "none", jwt |-> tkNoRole, p |-> NoArgs,
   v_old_status |-> NULL, sp |-> NoContribution, ret |-> NoRet]

\* what a server action returns, and the server action when none is running
NoResult == [success |-> FALSE, error |-> "none", thrown |-> FALSE]

ActionFailed(msg) == [success |-> FALSE, error |-> msg, thrown |-> FALSE]

ActionSucceeded == [success |-> TRUE, error |-> "none", thrown |-> FALSE]

IdleServer ==
  [pc |-> "idle", op |-> "none", jwt |-> tkNoRole, cid |-> NULL, reason |-> NULL,
   transport |-> "none", ret |-> NoResult]

\* ------------------------------------------------------------------------
\* Tables and their constraints
\* ------------------------------------------------------------------------
\* review_history.changes of a row written without that column
NoChanges ==
  [brand |-> NULL, manufacturer |-> NULL, plastic_type |-> NULL,
   confidence_level |-> NULL]

ClassificationOf(k, cid) == { r \in k : r.contribution_id = cid }

\* classifications: the NOT NULLs, the two foreign keys and the CHECK on
\* confidence_level (a CHECK admits a row unless its condition is false)
ClassificationRowOk(c, r) ==
  /\ r.contribution_id # NULL /\ r.contribution_id \in DOMAIN c
  /\ r.brand # NULL
  /\ r.manufacturer # NULL
  /\ r.classified_by # NULL /\ r.classified_by \in Users
  /\ SqlNotIn(r.confidence_level, ConfidenceLevels) # "true"

\* review_history: the NOT NULLs, the two foreign keys and the CHECK on action
HistoryRowOk(c, r) ==
  /\ r.contribution_id # NULL /\ r.contribution_id \in DOMAIN c
  /\ r.admin_id # NULL /\ r.admin_id \in Users
  /\ r.action # NULL /\ r.action \in HistoryActions

\* the contribution row as other transactions see it: a row updated by a
\* transaction that has not committed still shows its old version
Holder(cid) ==
  { s \in Sessions : session[s].pc = "updated" /\ session[s].p.p_contribution_id = cid }

Locked(cid) == Holder(cid) # {}

CommittedRow(cid) ==
  IF cid \notin DOMAIN contributions THEN NoContribution
  ELSE IF Locked(cid) THEN session[CHOOSE s \in Holder(cid) : TRUE].sp
  ELSE contributions[cid]

InFlight == { s \in Sessions : session[s].pc # "idle" }

\* ------------------------------------------------------------------------
\* refactor_contributions_schema, part 3: DROP COLUMN on contributions
\* ------------------------------------------------------------------------
refactor_contributions_schema ==
  /\ ~refactored
  /\ InFlight = {}
  /\ refactored' = TRUE
  /\ contributions' =
       [c \in DOMAIN contributions |->
          [contributions[c] EXCEPT !.classified_by = DROPPED]]
  /\ UNCHANGED <<classifications, nextClassId, review_history, session, rowOps>>
  /\ UNCHANGED <<server, queueVars>>

\* ------------------------------------------------------------------------
\* classify_contribution / reject_contribution
\* ------------------------------------------------------------------------
\* IF NOT public.is_admin() THEN RAISE EXCEPTION 'Access denied ...'
AccessDenied(jwt) == IsTrue(SqlNot(is_admin(jwt)))

\* IF p_confidence_level NOT IN ('high','medium','low') THEN RAISE EXCEPTION
InvalidConfidence(p) == IsTrue(SqlNotIn(p.p_confidence_level, ConfidenceLevels))

\* the status read without looking at the row
AssumePending(cid) == IF cid \in DOMAIN contributions THEN "pending" ELSE NULL

\* SELECT status INTO v_old_status FROM contributions WHERE id = p_contribution_id
\* (a plain read: it takes no row lock and sees the last committed version)
SelectStatus(cid) == CommittedRow(cid).status

\* The refactor migration replaces classify_contribution before it drops
\* contributions.classified_by / classified_at, and leaves reject_contribution
\* as it was: its UPDATE still names the dropped columns.
NamesDroppedColumn(op) == refactored /\ op = "reject"

\* UPDATE contributions SET ... WHERE id = p_contribution_id
StatusNotWritten(op, row, p) == row

UpdatedContribution(op, row, p) ==
  IF op = "classify"
  THEN IF refactored
       THEN [row EXCEPT !.status = "classified"]
       ELSE [row EXCEPT !.status = "classified", !.classified_by = p.p_admin_id]
  ELSE [row EXCEPT !.status = "rejected", !.classified_by = p.p_admin_id,
                   !.notes = p.p_reason]

\* the columns classify_contribution writes into classifications
VerifiedFields(p) ==
  [contribution_id |-> p.p_contribution_id, brand |-> p.p_brand,
   manufacturer |-> p.p_manufacturer, plastic_type |-> p.p_plastic_type,
   classified_by |-> p.p_admin_id, confidence_level |-> p.p_confidence_level]

NewClassification(id, f) ==
  [id |-> id, contribution_id |-> f.contribution_id, brand |-> f.brand,
   manufacturer |-> f.manufacturer, plastic_type |-> f.plastic_type,
   classified_by |-> f.classified_by, confidence_level |-> f.confidence_level]

\* INSERT INTO classifications ... ON CONFLICT (contribution_id) DO UPDATE SET ...
\* RETURNING id: the table after the statement and the id returned
AlwaysInsert(k, id, f) ==
  [k |-> k \cup {NewClassification(id, f)}, id |-> id, inserted |-> TRUE]

UpsertDoNothing(k, id, f) ==
  IF ClassificationOf(k, f.contribution_id) = {}
  THEN [k |-> k \cup {NewClassification(id, f)}, id |-> id, inserted |-> TRUE]
  ELSE [k |-> k, id |-> (CHOOSE r \in ClassificationOf(k, f.contribution_id) : TRUE).id,
        inserted |-> FALSE]

Upsert(k, id, f) ==
  IF ClassificationOf(k, f.contribution_id) = {}
  THEN [k |-> k \cup {NewClassification(id, f)}, id |-> id, inserted |-> TRUE]
  ELSE LET old == CHOOSE r \in ClassificationOf(k, f.contribution_id) : TRUE
       IN [k |-> (k \ {old}) \cup {NewClassification(old.id, f)},
           id |-> old.id, inserted |-> FALSE]

\* DELETE FROM classifications WHERE contribution_id = p_contribution_id
KeepClassification(k, cid) == k

DeleteClassification(k, cid) == k \ ClassificationOf(k, cid)

\* the row each procedure inserts into review_history
HistoryRow(op, p, v_old_status) ==
  IF op = "classify"
  THEN [contribution_id |-> p.p_contribution_id, admin_id |-> p.p_admin_id,
        action |-> IF IsTrue(SqlEq(v_old_status, "classified"))
                   THEN "reclassified" ELSE "classified",
        previous_status |-> v_old_status, new_status |-> "classified",
        changes |-> [brand |-> p.p_brand, manufacturer |-> p.p_manufacturer,
                     plastic_type |-> p.p_plastic_type,
                     confidence_level |-> p.p_confidence_level],
        reason |-> NULL]
  ELSE [contribution_id |-> p.p_contribution_id, admin_id |-> p.p_admin_id,
        action |-> "rejected",
        previous_status |-> v_old_status, new_status |-> "rejected",
        changes |-> NoChanges, reason |-> p.p_reason]

\* BEGIN ... EXCEPTION WHEN OTHERS: the block runs under a savepoint, and an
\* exception undoes what the block wrote before the handler runs.
\* saved / partial are [c |-> contributions, k |-> classifications].
KeepPartialWrites(saved, partial) == partial

ExceptionBlock(saved, partial) == saved

\* The call up to and including the SELECT of the current status.
Call(s, jwt, op, p) ==
  /\ session[s].pc = "idle"
  /\ Len(review_history) + Cardinality(InFlight) < MaxHistory
  /\ LET v_old_status == SelectStatus(p.p_contribution_id)
         raised == IF AccessDenied(jwt)
                     THEN "Access denied: Admin privileges required"
                   ELSE IF op = "classify" /\ InvalidConfidence(p)
                     THEN "Invalid confidence level"
                   ELSE IF v_old_status = NULL
                     THEN "Contribution not found"
                   ELSE "none"
     IN session' = [session EXCEPT ![s] =
          IF raised # "none"
          THEN [IdleSession EXCEPT !.ret = Failure(raised)]
          ELSE [IdleSession EXCEPT !.pc = "selected", !.op = op, !.jwt = jwt,
                                   !.p = p, !.v_old_status = v_old_status]]
  /\ UNCHANGED <<refactored, contributions, classifications, nextClassId,
                 review_history, rowOps>>
  /\ UNCHANGED <<server, queueVars>>

\* UPDATE contributions SET status = ... : waits for the row lock, which the
\* transaction then holds until it ends.
UpdateStatus(s) ==
  LET ss == session[s]
      cid == ss.p.p_contribution_id
  IN /\ ss.pc = "selected"
     /\ IF NamesDroppedColumn(ss.op)
        THEN \* column "classified_by" of relation "contributions" does not exist
             /\ session' = [session EXCEPT ![s] =
                  [IdleSession EXCEPT !.ret = Failure("undefined column")]]
             /\ UNCHANGED contributions
        ELSE IF cid \notin DOMAIN contributions
        THEN \* the row was deleted after the SELECT: the UPDATE matches no row
             /\ session' = [session EXCEPT ![s].pc = "updated",
                                           ![s].sp = NoContribution]
             /\ UNCHANGED contributions
        ELSE /\ ~Locked(cid)
             /\ contributions' = [contributions EXCEPT ![cid] =
                  UpdatedContribution(ss.op, contributions[cid], ss.p)]
             /\ session' = [session EXCEPT ![s].pc = "updated",
                                           ![s].sp = contributions[cid]]
     /\ UNCHANGED <<refactored, classifications, nextClassId, review_history, rowOps>>
     /\ UNCHANGED <<server, queueVars>>

\* The rest of the block: the write to classifications, the INSERT into
\* review_history, RETURN, and the end of the transaction.
Complete(s) ==
  LET ss == session[s]
      cid == ss.p.p_contribution_id
      saved == [c |-> [contributions EXCEPT ![cid] = ss.sp], k |-> classifications]
      up == Upsert(classifications, nextClassId, VerifiedFields(ss.p))
      upOk == \A r \in ClassificationOf(up.k, cid) : ClassificationRowOk(contributions, r)
      k1 == IF ss.op = "classify" THEN up.k
            ELSE DeleteClassification(classifications, cid)
      row == HistoryRow(ss.op, ss.p, ss.v_old_status)
      stmt2Ok == ss.op = "reject" \/ upOk
      stmt3Ok == HistoryRowOk(contributions, row)
      partial == [c |-> contributions, k |-> IF stmt2Ok THEN k1 ELSE classifications]
      after == ExceptionBlock(saved, partial)
  IN /\ ss.pc = "updated"
     /\ IF stmt2Ok /\ stmt3Ok
        THEN /\ classifications' = k1
             /\ nextClassId' = IF ss.op = "classify" /\ up.inserted
                               THEN nextClassId + 1 ELSE nextClassId
             /\ review_history' = Append(review_history, row)
             /\ session' = [session EXCEPT ![s] =
                  [IdleSession EXCEPT !.ret =
                     [success |-> TRUE, error |-> "none",
                      previous_status |-> ss.v_old_status,
                      classification_id |-> IF ss.op = "classify" THEN up.id ELSE 0]]]
             /\ UNCHANGED contributions
        ELSE /\ contributions' = after.c
             /\ classifications' = after.k
             /\ session' = [session EXCEPT ![s] =
                  [IdleSession EXCEPT !.ret =
                     Failure(IF stmt2Ok THEN "review_history constraint"
                             ELSE "classifications constraint")]]
             /\ UNCHANGED <<nextClassId, review_history>>
     /\ UNCHANGED <<refactored, rowOps>>
     /\ UNCHANGED <<server, queueVars>>

\* ------------------------------------------------------------------------
\* Local Durable Queue (offline-queue)
\* ------------------------------------------------------------------------
\* invocations of syncQueue that can be in flight together, and the
\* invocation of saveToOfflineQueue
Passes == {"p1", "p2"}
Writers == {"w1"}

\* what an awaited IndexedDB / network operation can do
ReadOutcomes == {"ok", "open failed", "request failed"}
IoOutcomes == {"ok", "failed"}

\* what a write to the object store can do: openDatabase() may reject
\* ("failed"); store.clear() / add() / delete() return an IDBRequest, which
\* the await does not wait for, so when the transaction aborts afterwards
\* (quota, constraint) the caller has already gone on ("aborted")
WriteOutcomes == {"ok", "failed", "aborted"}

\* an awaited operation settles with the given outcome
Fault(outcome) ==
  IF outcome = "ok"
  THEN faults' = faults
  ELSE faults > 0 /\ faults' = faults - 1

Payloads == {"f1"}

\* item.images: productImage is always there, backsideImage, recyclingImage
\* and manufacturerImage may be; the form "f1" carries two images
ImagesOf(payload) == {"productImage", "recyclingImage"}

\* const contribution: QueuedContribution = { id, ..., status: 'pending', retryCount: 0 }
NewItem(id, payload) ==
  [id |-> id, payload |-> payload, status |-> "pending", retryCount |-> 0,
   error |-> NULL]

NoQueue == <<>>

\* getOfflineQueue(): store.getAll(), or [] when openDatabase() rejects
getOfflineQueue(outcome) == IF outcome = "ok" THEN idb ELSE NoQueue

\* queue.push(contribution)
Push(q, item) == [i \in DOMAIN q \cup {item.id} |-> IF i = item.id THEN item ELSE q[i]]

\* store.delete(id)
Delete(q, id) == [i \in DOMAIN q \ {id} |-> q[i]]

\* updateQueueItemStatus, from queue.find to the in-memory change
StatusWithoutRetryCount(q, id, status, error) ==
  IF id \in DOMAIN q THEN [q EXCEPT ![id].status = status] ELSE q

WithStatus(q, id, status, error) ==
  IF id \in DOMAIN q
  THEN [q EXCEPT ![id].status = status,
                 ![id].error = IF error # NULL THEN error ELSE @,
                 ![id].retryCount = IF status = "failed" THEN @ + 1 ELSE @]
  ELSE q

\* the ids of q in the order getAll() returns them (key order)
RECURSIVE KeyOrder(_)
KeyOrder(S) ==
  IF S = {} THEN <<>>
  ELSE LET m == CHOOSE x \in S : \A y \in S : x <= y
       IN <<m>> \o KeyOrder(S \ {m})

IdleWriter == [pc |-> "idle", id |-> 0, payload |-> NULL, q |-> NoQueue]

\* saveToOfflineQueue up to await getOfflineQueue()
SaveCall(w, payload) ==
  /\ writer[w].pc = "idle"
  /\ nextId <= MaxItems
  /\ writer' = [writer EXCEPT ![w] =
       [pc |-> "read", id |-> nextId, payload |-> payload, q |-> NoQueue]]
  /\ nextId' = nextId + 1
  /\ UNCHANGED <<idb, remote, online, isSyncing, pass, created, faults, syncListeners>>
  /\ UNCHANGED engineVars

\* getOfflineQueue() settles; queue.push; await openDatabase() of the save
SaveRead(w, outcome) ==
  /\ writer[w].pc = "read"
  /\ writer' = [writer EXCEPT ![w] =
       IF outcome = "request failed"
       THEN IdleWriter
       ELSE [writer[w] EXCEPT
               !.pc = "write",
               !.q = Push(getOfflineQueue(outcome),
                          NewItem(writer[w].id, writer[w].payload))]]
  /\ Fault(outcome)
  /\ UNCHANGED <<idb, remote, online, isSyncing, pass, created, nextId, syncListeners>>
  /\ UNCHANGED engineVars

\* the invocation of syncQueue in slot p has read its pendingItems and has
\* not returned
PastSnapshot(p) == pass[p].pc \notin {"idle", "done", "dead", "snapshot"}

\* saveQueueToIndexedDB: store.clear() and store.add(item) for each item, in
\* one transaction; then return contribution.id
SaveWrite(w, outcome) ==
  /\ writer[w].pc = "write"
  /\ idb' = IF outcome = "ok" THEN writer[w].q ELSE idb
  /\ created' = IF outcome = "failed" THEN created ELSE created \cup {writer[w].id}
  /\ writer' = [writer EXCEPT ![w] = IdleWriter]
  /\ pass' = [p \in Passes |->
                IF outcome = "ok" /\ PastSnapshot(p)
                THEN [pass[p] EXCEPT !.late = @ \cup {writer[w].id}]
                ELSE pass[p]]
  /\ Fault(outcome)
  /\ UNCHANGED <<remote, online, isSyncing, nextId, syncListeners>>
  /\ UNCHANGED engineVars

\* ------------------------------------------------------------------------
\* Sync Manager
\* ------------------------------------------------------------------------
ZeroStats == [total |-> 0, completed |-> 0, failed |-> 0]

\* an invocation of syncQueue: its position, pendingItems (ids), the index of
\* the loop, stats, the status updateQueueItemStatus is writing and its copy
\* of the queue; and, kept for stating properties of a whole pass: the
\* retryCount of each selected item at the snapshot, the items whose upload
\* failed, and the failures still to come when the call was made; images
\* holds item.images of each selected item, uploaded the images whose
\* uploadFile has resolved in the attempt under way, late the items that
\* were stored in the queue after the pass took its snapshot
IdlePass ==
  [pc |-> "idle", items |-> <<>>, i |-> 0, stats |-> ZeroStats,
   target |-> "none", q |-> NoQueue,
   before |-> <<>>, uploadFailed |-> {}, start |-> 0,
   images |-> <<>>, uploaded |-> {}, late |-> {}]

\* notifySyncProgress(stats) throws when a subscriber throws
Callbacks == {"throws"}

NotifyThrows == "throws" \in syncListeners

\* if (isSyncing) return { total: 0, completed: 0, failed: 0 }
NoGuard == FALSE

AlreadySyncing == isSyncing

\* if (!isOnline()) return { total: 0, completed: 0, failed: 0 }
NeverOffline == FALSE

Offline == ~online

\* queue.filter(item => item.status === 'pending' || item.status === 'failed')
OnlyPending(q) == { id \in DOMAIN q : q[id].status = "pending" }

Eligible(q) == { id \in DOMAIN q : q[id].status \in {"pending", "failed"} }

CurrentId(r) == r.items[r.i]

\* the for loop reaching item i: syncSingleContribution starts with
\* updateQueueItemStatus(item.id, 'uploading'); past the last item the pass
\* clears the flag and returns its stats
AtItem(r, i) ==
  IF i > Len(r.items)
  THEN [IdlePass EXCEPT !.pc = "done", !.stats = r.stats]
  ELSE IF NotifyThrows
  THEN \* notifySyncProgress(stats) is inside the try block
       [r EXCEPT !.pc = "status read", !.i = i, !.target = "failed", !.q = NoQueue]
  ELSE [r EXCEPT !.pc = "status read", !.i = i, !.target = "uploading", !.q = NoQueue]

\* the item is done with (stats already updated): notifySyncProgress(stats)
\* after the try / catch, then the next item
NextItem(r) ==
  IF NotifyThrows
  THEN [IdlePass EXCEPT !.pc = "dead"]
  ELSE AtItem(r, r.i + 1)

\* a step of the try block threw: the catch block marks the item 'failed';
\* an exception of the catch block itself leaves syncQueue
Thrown(r) ==
  IF r.target = "failed"
  THEN [IdlePass EXCEPT !.pc = "dead"]
  ELSE [r EXCEPT !.pc = "status read", !.target = "failed", !.q = NoQueue]

\* the catch block without stats.failed++
AfterStatusUncounted(r) ==
  IF r.target = "uploading" THEN [r EXCEPT !.pc = "upload", !.q = NoQueue]
  ELSE IF r.target = "completed" THEN [r EXCEPT !.pc = "remove", !.q = NoQueue]
  ELSE NextItem(r)

\* updateQueueItemStatus returned: where the pass goes on
AfterStatus(r) ==
  IF r.target = "uploading" THEN [r EXCEPT !.pc = "upload", !.q = NoQueue]
  ELSE IF r.target = "completed" THEN [r EXCEPT !.pc = "remove", !.q = NoQueue]
  ELSE NextItem([r EXCEPT !.stats.failed = @ + 1])

\* isSyncing after a step that leaves the pass in state r
FlagAfter(r) == IF r.pc = "done" THEN FALSE ELSE isSyncing

Active(p) == pass[p].pc \notin {"idle", "done", "dead"}

\* syncQueue() from its call to await getOfflineQueue()
SyncCall(p) ==
  /\ pass[p].pc \in {"idle", "done", "dead"}
  /\ IF AlreadySyncing \/ Offline
     THEN /\ pass' = [pass EXCEPT ![p] = [IdlePass EXCEPT !.pc = "done"]]
          /\ UNCHANGED isSyncing
     ELSE /\ isSyncing' = TRUE
          /\ pass' = [pass EXCEPT ![p] =
               [IdlePass EXCEPT !.pc = "snapshot", !.start = faults]]
  /\ UNCHANGED <<idb, remote, online, writer, created, nextId, faults, syncListeners>>
  /\ UNCHANGED engineVars

\* getOfflineQueue() settles; pendingItems; the loop reaches its first item
Snapshot(p, outcome) ==
  /\ pass[p].pc = "snapshot"
  /\ LET q == getOfflineQueue(outcome)
         items == KeyOrder(Eligible(q))
         r == IF outcome = "request failed"
              THEN [IdlePass EXCEPT !.pc = "dead"]
              ELSE AtItem([pass[p] EXCEPT
                             !.items = items,
                             !.stats.total = Len(items),
                             !.before = [id \in Eligible(q) |-> q[id].retryCount],
                             !.images = [id \in Eligible(q) |-> ImagesOf(q[id].payload)]], 1)
     IN /\ pass' = [pass EXCEPT ![p] = r]
        /\ isSyncing' = FlagAfter(r)
  /\ Fault(outcome)
  /\ UNCHANGED <<idb, remote, online, writer, created, nextId, syncListeners>>
  /\ UNCHANGED engineVars

\* updateQueueItemStatus: getOfflineQueue() settles, the item is changed in
\* memory, saveQueueToIndexedDB awaits openDatabase()
StatusRead(p, outcome) ==
  /\ pass[p].pc = "status read"
  /\ LET id == CurrentId(pass[p])
         q == getOfflineQueue(outcome)
         r == IF outcome = "request failed" THEN Thrown(pass[p])
              ELSE IF id \in DOMAIN q
                   THEN [pass[p] EXCEPT !.pc = "status write",
                           !.q = WithStatus(q, id, pass[p].target,
                                   IF pass[p].target = "failed" THEN "error" ELSE NULL)]
                   ELSE AfterStatus(pass[p])
     IN /\ pass' = [pass EXCEPT ![p] = r]
        /\ isSyncing' = FlagAfter(r)
  /\ Fault(outcome)
  /\ UNCHANGED <<idb, remote, online, writer, created, nextId, syncListeners>>
  /\ UNCHANGED engineVars

\* updateQueueItemStatus: saveQueueToIndexedDB(queue)
StatusWrite(p, outcome) ==
  /\ pass[p].pc = "status write"
  /\ LET r == IF outcome = "failed" THEN Thrown(pass[p]) ELSE AfterStatus(pass[p])
     IN /\ pass' = [pass EXCEPT ![p] = r]
        /\ isSyncing' = FlagAfter(r)
        /\ idb' = IF outcome = "ok" THEN pass[p].q ELSE idb
  /\ Fault(outcome)
  /\ UNCHANGED <<remote, online, writer, created, nextId, syncListeners>>
  /\ UNCHANGED engineVars

\* Promise.all fulfils when one of the promises does
AnyFulfilled(outs) ==
  IF \E k \in DOMAIN outs : outs[k] = "ok" THEN "ok" ELSE "failed"

\* Promise.all([...]) rejects as soon as one uploadFile rejects, and fulfils
\* when all have (the images the item lacks are Promise.resolve(null))
PromiseAll(outs) ==
  IF \E k \in DOMAIN outs : outs[k] = "failed" THEN "failed" ELSE "ok"

\* syncSingleContribution: await Promise.all([uploadFile(...), ...]); outs
\* is the outcome of the upload of each image of the item
Upload(p, outs) ==
  LET outcome == PromiseAll(outs)
  IN /\ pass[p].pc = "upload"
     /\ DOMAIN outs = pass[p].images[CurrentId(pass[p])]
     /\ LET r == IF outcome = "ok"
                 THEN [pass[p] EXCEPT !.pc = "insert",
                         !.uploaded = { k \in DOMAIN outs : outs[k] = "ok" }]
                 ELSE Thrown([pass[p] EXCEPT
                                !.uploadFailed = @ \cup {CurrentId(pass[p])}])
        IN pass' = [pass EXCEPT ![p] = r]
     /\ Fault(outcome)
  /\ UNCHANGED <<idb, remote, online, isSyncing, writer, created, nextId, syncListeners>>
  /\ UNCHANGED engineVars

\* syncSingleContribution: supabase.from('contributions').insert([...]),
\* then updateQueueItemStatus(item.id, 'completed')
Insert(p, outcome) ==
  /\ pass[p].pc = "insert"
  /\ LET r == IF outcome = "ok"
              THEN [pass[p] EXCEPT !.pc = "status read", !.target = "completed",
                                   !.uploaded = {}]
              ELSE Thrown([pass[p] EXCEPT !.uploaded = {}])
     IN pass' = [pass EXCEPT ![p] = r]
  /\ remote' = IF outcome = "ok"
               THEN Append(remote, [localId |-> CurrentId(pass[p]), status |-> "pending"])
               ELSE remote
  /\ Fault(outcome)
  /\ UNCHANGED <<idb, online, isSyncing, writer, created, nextId, syncListeners>>
  /\ UNCHANGED engineVars

\* removeFromQueue(item.id); stats.completed++; the loop goes on
Remove(p, outcome) ==
  /\ pass[p].pc = "remove"
  /\ LET r == IF outcome = "failed"
              THEN Thrown(pass[p])
              ELSE NextItem([pass[p] EXCEPT !.stats.completed = @ + 1])
     IN /\ pass' = [pass EXCEPT ![p] = r]
        /\ isSyncing' = FlagAfter(r)
  /\ idb' = IF outcome = "ok" THEN Delete(idb, CurrentId(pass[p])) ELSE idb
  /\ Fault(outcome)
  /\ UNCHANGED <<remote, online, writer, created, nextId, syncListeners>>
  /\ UNCHANGED engineVars

\* the browser's online / offline events
Connectivity ==
  /\ online' = ~online
  /\ UNCHANGED <<idb, remote, isSyncing, pass, writer, created, nextId, faults, syncListeners>>
  /\ UNCHANGED engineVars

\* onSyncProgress(callback)
onSyncProgress(callback) ==
  /\ callback \notin syncListeners
  /\ syncListeners' = syncListeners \cup {callback}
  /\ UNCHANGED <<idb, remote, online, isSyncing, pass, writer, created, nextId, faults>>
  /\ UNCHANGED engineVars

\* the page is reloaded or the browser crashes: the module state is gone,
\* the object store and the remote store stay
Reload ==
  /\ faults > 0
  /\ faults' = faults - 1
  /\ isSyncing' = FALSE
  /\ syncListeners' = {}
  /\ pass' = [p \in Passes |-> IdlePass]
  /\ writer' = [w \in Writers |-> IdleWriter]
  /\ UNCHANGED <<idb, remote, online, created, nextId>>
  /\ UNCHANGED engineVars

Enqueue ==
  \E w \in Writers :
    \/ \E f \in Payloads : SaveCall(w, f)
    \/ \E o \in ReadOutcomes : SaveRead(w, o)
    \/ \E o \in WriteOutcomes : SaveWrite(w, o)

\* what the uploads of an item's images can do
UploadOutcomes == UNION { [ImagesOf(f) -> IoOutcomes] : f \in Payloads }

\* one step of the call of syncQueue in slot p: the call itself, or the
\* continuation after one of its awaits
PassStep(p) ==
  \/ SyncCall(p)
  \/ \E o \in ReadOutcomes : Snapshot(p, o) \/ StatusRead(p, o)
  \/ \E o \in WriteOutcomes : StatusWrite(p, o) \/ Remove(p, o)
  \/ \E outs \in UploadOutcomes : Upload(p, outs)
  \/ \E o \in IoOutcomes : Insert(p, o)

Sync == \E p \in Passes : PassStep(p)

NextSync ==
  \/ Enqueue
  \/ Sync
  \/ Connectivity

\* ------------------------------------------------------------------------
\* Initial states
\* ------------------------------------------------------------------------
InitEngine ==
  /\ refactored = FALSE
  /\ contributions =
       [c \in ExistingIds |->
          [user_id |-> "u3", status |-> "pending", classified_by |-> NULL,
           notes |-> NULL]]
  /\ classifications = {}
  /\ nextClassId = 1
  /\ review_history = <<>>
  /\ session = [s \in Sessions |-> IdleSession]
  /\ rowOps = [n |-> 0, last |-> "none", by |-> NULL, on |-> NULL, rows |-> 0]
  /\ server = IdleServer

InitStore ==
  /\ idb = <<>>
  /\ remote = <<>>
  /\ online = TRUE
  /\ isSyncing = FALSE
  /\ pass = [p \in Passes |-> IdlePass]
  /\ writer = [w \in Writers |-> IdleWriter]
  /\ created = {}
  /\ nextId = 1
  /\ syncListeners = {}

InitQueue == InitStore /\ faults = MaxFaults

Init == InitEngine /\ InitQueue

SpecSync == Init /\ [][NextSync]_vars

\* ------------------------------------------------------------------------
\* Submissions and sync passes that take turns, with progress subscribers
\* and reloads
\* ------------------------------------------------------------------------
InitPass == InitEngine /\ InitStore /\ faults = MaxPassFaults

QuietEnqueue == (\A p \in Passes : ~Active(p)) /\ Enqueue

QuietSync == (\A w \in Writers : writer[w].pc = "idle") /\ Sync

Subscribe == \E cb \in Callbacks : onSyncProgress(cb)

NextPass ==
  \/ QuietEnqueue
  \/ QuietSync
  \/ Subscribe
  \/ Reload

SpecPass == InitPass /\ [][NextPass]_vars

\* The same, with the scheduling the runtime gives: a pending await of a
\* submission or of a pass is eventually resumed (the event loop runs every
\* settled promise's continuation), and triggers keep occurring (the online
\* event, the visibility handler and the timer of initAutoSync call syncQueue
\* again and again). Failures and reloads are not fair: they stop once the
\* budget is spent.
SaveResumed == (\E w \in Writers : writer[w].pc # "idle") /\ QuietEnqueue

PassResumed(p) == (\A w \in Writers : writer[w].pc = "idle") /\ PassStep(p)

FairPass ==
  /\ SpecPass
  /\ WF_vars(SaveResumed)
  /\ \A p \in Passes : WF_vars(PassResumed(p))

\* ------------------------------------------------------------------------
\* The engine called by one session at a time
\* ------------------------------------------------------------------------
EngineCall ==
  \E jwt \in Tokens :
    \/ \E p \in ClassifyArgs : Call("s1", jwt, "classify", p)
    \/ \E p \in RejectArgs : Call("s1", jwt, "reject", p)

EngineUpdate == UpdateStatus("s1")

EngineComplete == Complete("s1")

NextEngine ==
  \/ EngineCall
  \/ EngineUpdate
  \/ EngineComplete
  \/ refactor_contributions_schema

SpecEngine == Init /\ [][NextEngine]_vars

\* ------------------------------------------------------------------------
\* Two sessions calling the engine concurrently (READ COMMITTED)
\* ------------------------------------------------------------------------
ConcClassifyArgs ==
  { p \in ClassifyArgs :
      /\ p.p_contribution_id \in ExistingIds
      /\ p.p_admin_id = "u1"
      /\ p.p_brand # NULL
      /\ p.p_confidence_level \in {"high", "medium"} }

ConcRejectArgs ==
  { p \in RejectArgs :
      /\ p.p_contribution_id \in ExistingIds
      /\ p.p_admin_id = "u1"
      /\ p.p_reason = "r1" }

ConcCall ==
  \E s \in Sessions :
    \/ \E p \in ConcClassifyArgs : Call(s, tkAppAdmin, "classify", p)
    \/ \E p \in ConcRejectArgs : Call(s, tkAppAdmin, "reject", p)

ConcUpdate == \E s \in Sessions : UpdateStatus(s)

ConcComplete == \E s \in Sessions : Complete(s)

NextConc ==
  \/ ConcCall
  \/ ConcUpdate
  \/ ConcComplete

SpecConc == Init /\ [][NextConc]_vars

\* ------------------------------------------------------------------------
\* Row-level statements sent directly to the tables (subject to RLS)
\* ------------------------------------------------------------------------
\* review_history policies: admins_view_review_history (SELECT) and
\* system_insert_review_history (INSERT). With RLS enabled, a command for
\* which the table has no policy is denied for every row.
AdminsMayDeleteHistory(jwt, r) == IsTrue(is_admin(jwt))

review_history_insert_policy(jwt, r) == TRUE

review_history_update_policy(jwt, r) == FALSE

review_history_delete_policy(jwt, r) == FALSE

\* classifications policies: admins_create_classifications,
\* admins_delete_classifications
classifications_insert_policy(jwt, r) == IsTrue(is_admin(jwt))

classifications_delete_policy(jwt, r) == IsTrue(is_admin(jwt))

\* contributions policy users_delete_own_pending
users_delete_own_pending(jwt, r) ==
  IsTrue(SqlEq(jwt.uid, r.user_id)) /\ IsTrue(SqlEq(r.status, "pending"))

\* contributions policies users_update_own_pending (USING and WITH CHECK
\* are the same condition) and admins_update_contributions
OwnInAnyStatus(jwt, r) == IsTrue(SqlEq(jwt.uid, r.user_id))

users_update_own_pending(jwt, r) ==
  IsTrue(SqlEq(jwt.uid, r.user_id)) /\ IsTrue(SqlEq(r.status, "pending"))

admins_update_contributions(jwt, r) == IsTrue(is_admin(jwt))

\* contributions policies users_view_own_contributions,
\* admins_view_all_contributions and public_view_classified
users_view_own_contributions(jwt, r) == IsTrue(SqlEq(jwt.uid, r.user_id))

admins_view_all_contributions(jwt, r) == IsTrue(is_admin(jwt))

public_view_classified(jwt, r) == IsTrue(SqlEq(r.status, "classified"))

\* permissive policies of one command are combined with OR
MaySelect(jwt, r) ==
  \/ users_view_own_contributions(jwt, r)
  \/ admins_view_all_contributions(jwt, r)
  \/ public_view_classified(jwt, r)

MayUpdate(jwt, r) ==
  users_update_own_pending(jwt, r) \/ admins_update_contributions(jwt, r)

\* contribution_id uuid REFERENCES contributions(id) UNIQUE NOT NULL
NoUniqueConstraint(k, r) == TRUE

ContributionIdUnique(k, r) == ClassificationOf(k, r.contribution_id) = {}

\* REFERENCES contributions(id) without ON DELETE: a referenced row cannot
\* be deleted
Referenced(cid) ==
  \/ ClassificationOf(classifications, cid) # {}
  \/ \E i \in 1..Len(review_history) : review_history[i].contribution_id = cid

\* a signed-in user without the admin role who owns no contribution
tkOther == [uid |-> "u2", app_role |-> "user", user_role |-> NULL]

RowTokens == {tkAppAdmin, tkUser, tkNoRole, tkOther}

\* rows a caller may try to put into review_history directly
DirectHistoryRows ==
  { [contribution_id |-> c, admin_id |-> "u3", action |-> a,
     previous_status |-> NULL, new_status |-> NULL,
     changes |-> NoChanges, reason |-> NULL] :
      c \in {"c1", "c9"}, a \in {"updated", "approved"} }

\* rows an admin may try to put into classifications directly
DirectClassificationRows ==
  { [contribution_id |-> c, brand |-> "b2", manufacturer |-> "m2",
     plastic_type |-> NULL, classified_by |-> "u1", confidence_level |-> "low"] :
      c \in ExistingIds }

DoneOn(jwt, op, cid, n) ==
  [n |-> rowOps.n + 1, last |-> op, by |-> jwt.uid, on |-> cid, rows |-> n]

Done(jwt, op, n) == DoneOn(jwt, op, NULL, n)

\* INSERT INTO review_history
RowInsertHistory(jwt, r) ==
  /\ rowOps.n < MaxRowOps
  /\ Len(review_history) + Cardinality(InFlight) < MaxHistory
  /\ IF review_history_insert_policy(jwt, r) /\ HistoryRowOk(contributions, r)
     THEN /\ review_history' = Append(review_history, r)
          /\ rowOps' = Done(jwt, "insert review_history", 1)
     ELSE /\ UNCHANGED review_history
          /\ rowOps' = Done(jwt, "insert review_history", 0)
  /\ UNCHANGED <<refactored, contributions, classifications, nextClassId, session>>
  /\ UNCHANGED <<server, queueVars>>

\* UPDATE review_history SET reason = ... WHERE the row is the i-th
RowUpdateHistory(jwt, i) ==
  /\ rowOps.n < MaxRowOps
  /\ i \in 1..Len(review_history)
  /\ IF review_history_update_policy(jwt, review_history[i])
     THEN /\ review_history' = [review_history EXCEPT ![i].reason = "edited"]
          /\ rowOps' = Done(jwt, "update review_history", 1)
     ELSE /\ UNCHANGED review_history
          /\ rowOps' = Done(jwt, "update review_history", 0)
  /\ UNCHANGED <<refactored, contributions, classifications, nextClassId, session>>
  /\ UNCHANGED <<server, queueVars>>

\* DELETE FROM review_history WHERE the row is the i-th
RowDeleteHistory(jwt, i) ==
  /\ rowOps.n < MaxRowOps
  /\ i \in 1..Len(review_history)
  /\ IF review_history_delete_policy(jwt, review_history[i])
     THEN /\ review_history' =
               SubSeq(review_history, 1, i - 1) \o
               SubSeq(review_history, i + 1, Len(review_history))
          /\ rowOps' = Done(jwt, "delete review_history", 1)
     ELSE /\ UNCHANGED review_history
          /\ rowOps' = Done(jwt, "delete review_history", 0)
  /\ UNCHANGED <<refactored, contributions, classifications, nextClassId, session>>
  /\ UNCHANGED <<server, queueVars>>

\* INSERT INTO classifications
RowInsertClassification(jwt, f) ==
  LET r == NewClassification(nextClassId, f)
  IN /\ rowOps.n < MaxRowOps
     /\ ~Locked(f.contribution_id)
     /\ IF /\ classifications_insert_policy(jwt, r)
           /\ ClassificationRowOk(contributions, r)
           /\ ContributionIdUnique(classifications, r)
        THEN /\ classifications' = classifications \cup {r}
             /\ nextClassId' = nextClassId + 1
             /\ rowOps' = Done(jwt, "insert classifications", 1)
        ELSE /\ UNCHANGED <<classifications, nextClassId>>
             /\ rowOps' = Done(jwt, "insert classifications", 0)
     /\ UNCHANGED <<refactored, contributions, review_history, session>>
     /\ UNCHANGED <<server, queueVars>>

\* DELETE FROM classifications WHERE contribution_id = cid
RowDeleteClassification(jwt, cid) ==
  LET hit == { r \in ClassificationOf(classifications, cid) :
                 classifications_delete_policy(jwt, r) }
  IN /\ rowOps.n < MaxRowOps
     /\ ~Locked(cid)
     /\ classifications' = classifications \ hit
     /\ rowOps' = Done(jwt, "delete classifications", Cardinality(hit))
     /\ UNCHANGED <<refactored, contributions, nextClassId, review_history, session>>
     /\ UNCHANGED <<server, queueVars>>

\* DELETE FROM contributions WHERE id = cid
RowDeleteContribution(jwt, cid) ==
  /\ rowOps.n < MaxRowOps
  /\ cid \in DOMAIN contributions
  /\ ~Locked(cid)
  /\ IF users_delete_own_pending(jwt, contributions[cid]) /\ ~Referenced(cid)
     THEN /\ contributions' =
               [c \in DOMAIN contributions \ {cid} |-> contributions[c]]
          /\ rowOps' = DoneOn(jwt, "delete contributions", cid, 1)
     ELSE /\ UNCHANGED contributions
          /\ rowOps' = DoneOn(jwt, "delete contributions", cid, 0)
  /\ UNCHANGED <<refactored, classifications, nextClassId, review_history, session>>
  /\ UNCHANGED <<server, queueVars>>

\* what a caller may try to SET on a contribution
ContributionEdits ==
  { [col |-> "notes", val |-> "edited"], [col |-> "status", val |-> "classified"],
    [col |-> "status", val |-> "pending"] }

Edited(r, e) ==
  IF e.col = "notes" THEN [r EXCEPT !.notes = e.val] ELSE [r EXCEPT !.status = e.val]

\* UPDATE contributions SET col = val WHERE id = cid. The row is a target
\* when a SELECT policy and an UPDATE policy's USING admit it; the new row
\* must pass an UPDATE policy's WITH CHECK, or the statement fails.
RowUpdateContribution(jwt, cid, e) ==
  LET old == contributions[cid]
      new == Edited(old, e)
      hit == MaySelect(jwt, old) /\ MayUpdate(jwt, old)
  IN /\ rowOps.n < MaxRowOps
     /\ cid \in DOMAIN contributions
     /\ ~Locked(cid)
     /\ IF hit /\ MayUpdate(jwt, new)
        THEN /\ contributions' = [contributions EXCEPT ![cid] = new]
             /\ rowOps' = DoneOn(jwt, "update contributions", cid, 1)
        ELSE /\ UNCHANGED contributions
             /\ rowOps' = DoneOn(jwt, "update contributions", cid, 0)
     /\ UNCHANGED <<refactored, classifications, nextClassId, review_history, session>>
     /\ UNCHANGED <<server, queueVars>>

\* SELECT * FROM contributions WHERE id = cid
RowSelectContribution(jwt, cid) ==
  /\ rowOps.n < MaxRowOps
  /\ cid \in DOMAIN contributions
  /\ rowOps' = DoneOn(jwt, "select contributions", cid,
                      IF MaySelect(jwt, CommittedRow(cid)) THEN 1 ELSE 0)
  /\ UNCHANGED <<refactored, contributions, classifications, nextClassId,
                 review_history, session>>
  /\ UNCHANGED <<server, queueVars>>

\* ------------------------------------------------------------------------
\* The engine together with direct row-level statements
\* ------------------------------------------------------------------------
RowsCall ==
  \/ \E p \in ConcClassifyArgs :
       p.p_contribution_id = "c1" /\ Call("s1", tkAppAdmin, "classify", p)
  \/ \E p \in ConcRejectArgs :
       p.p_contribution_id = "c1" /\ Call("s1", tkAppAdmin, "reject", p)

RowsUpdate == UpdateStatus("s1")

RowsComplete == Complete("s1")

HistoryInsert == \E jwt \in RowTokens, r \in DirectHistoryRows : RowInsertHistory(jwt, r)

HistoryUpdate == \E jwt \in RowTokens, i \in 1..MaxHistory + 1 : RowUpdateHistory(jwt, i)

HistoryDelete == \E jwt \in RowTokens, i \in 1..MaxHistory + 1 : RowDeleteHistory(jwt, i)

ClassificationInsert ==
  \E jwt \in RowTokens, f \in DirectClassificationRows : RowInsertClassification(jwt, f)

ClassificationDelete ==
  \E jwt \in RowTokens, c \in ExistingIds : RowDeleteClassification(jwt, c)

ContributionDelete ==
  \E jwt \in RowTokens, c \in ExistingIds : RowDeleteContribution(jwt, c)

ContributionUpdate ==
  \E jwt \in RowTokens, c \in ExistingIds, e \in ContributionEdits :
    RowUpdateContribution(jwt, c, e)

ContributionSelect ==
  \E jwt \in RowTokens, c \in ExistingIds : RowSelectContribution(jwt, c)

NextRows ==
  \/ RowsCall
  \/ RowsUpdate
  \/ RowsComplete
  \/ HistoryInsert
  \/ HistoryUpdate
  \/ HistoryDelete
  \/ ClassificationInsert
  \/ ClassificationDelete
  \/ ContributionDelete

SpecRows == Init /\ [][NextRows]_vars

\* ------------------------------------------------------------------------
\* The engine together with the statements submitters and admins send to
\* the contributions table
\* ------------------------------------------------------------------------
NextOwner ==
  \/ RowsCall
  \/ RowsUpdate
  \/ RowsComplete
  \/ ContributionUpdate
  \/ ContributionDelete
  \/ ContributionSelect

SpecOwner == Init /\ [][NextOwner]_vars

\* ------------------------------------------------------------------------
\* What admins and non-admins can do to a contribution: the two procedures
\* (EXECUTE is granted to every role by default) and UPDATE statements
\* ------------------------------------------------------------------------
AccessCall ==
  \E jwt \in RowTokens :
    \/ \E p \in ConcClassifyArgs :
         p.p_contribution_id = "c1" /\ Call("s1", jwt, "classify", p)
    \/ \E p \in ConcRejectArgs :
         p.p_contribution_id = "c1" /\ Call("s1", jwt, "reject", p)

NextAccess ==
  \/ AccessCall
  \/ RowsUpdate
  \/ RowsComplete
  \/ ContributionUpdate

SpecAccess == Init /\ [][NextAccess]_vars

\* ------------------------------------------------------------------------
\* The review server actions of the application
\* ------------------------------------------------------------------------
\* the users who may call a server action: signed-in or not, with the role
\* in either metadata field
ActionCallers == {tkUserAdmin, tkAppAdmin, tkUser, tkAnon}

\* the contribution ids a reviewer's request may name
ActionIds == {"c1", "c9"}

\* the form a reviewer submits: brand, manufacturer and productType
ClassificationData ==
  { [brand |-> "b1", manufacturer |-> "m1", productType |-> "bottle"],
    [brand |-> "",   manufacturer |-> "m1", productType |-> "bottle"] }

\* classificationSchema.parse: the three required strings have min(1)
SchemaAccepts(data) ==
  data.brand # "" /\ data.manufacturer # "" /\ data.productType # ""

\* isAdmin reads user_metadata.role only
isAdmin(jwt) == jwt.user_role = "admin"

\* requireAdmin: the message of the error it throws, "none" when it returns
\* the user
requireAdmin(jwt) ==
  IF jwt.uid = NULL THEN "Authentication required"
  ELSE IF ~isAdmin(jwt) THEN "Admin access required"
  ELSE "none"

\* the row the classifyContribution update writes
ClassifiedByAction(r, jwt) ==
  [r EXCEPT !.status = "classified", !.classified_by = jwt.uid]

\* classifyContribution(contributionId, data): requireAdmin, the schema,
\* then one UPDATE of the contributions row under the caller's token, and
\* the result it returns. The UPDATE names brand, manufacturer,
\* classified_at and classified_by, which the refactored table has not.
classifyContribution(jwt, cid, data) ==
  LET denied == requireAdmin(jwt)
      hit == /\ cid \in DOMAIN contributions
             /\ MaySelect(jwt, contributions[cid])
             /\ MayUpdate(jwt, contributions[cid])
      new == ClassifiedByAction(contributions[cid], jwt)
      updateError ==
        IF refactored THEN TRUE
        ELSE hit /\ ~MayUpdate(jwt, new)
      ret == IF denied # "none" THEN ActionFailed(denied)
             ELSE IF ~SchemaAccepts(data) THEN ActionFailed("Brand is required")
             ELSE IF updateError THEN ActionFailed("Failed to classify contribution")
             ELSE ActionSucceeded
  IN /\ server.pc = "idle"
     /\ cid \in DOMAIN contributions => ~Locked(cid)
     /\ server' = [IdleServer EXCEPT !.op = "classify", !.jwt = jwt, !.cid = cid,
                                     !.ret = ret]
     /\ contributions' =
          IF ret.success /\ hit THEN [contributions EXCEPT ![cid] = new]
          ELSE contributions
     /\ UNCHANGED <<refactored, classifications, nextClassId, review_history,
                    session, rowOps>>
     /\ UNCHANGED queueVars

\* the arguments rejectContribution passes to the reject_contribution RPC
RejectRpcArgs(jwt, cid, reason) ==
  [NoArgs EXCEPT !.p_contribution_id = cid, !.p_admin_id = jwt.uid,
                 !.p_reason = reason]

\* rejectContribution(contributionId, reason) up to the RPC: requireAdmin
\* throws into the catch, or the request is about to be sent
rejectContribution(jwt, cid, reason) ==
  LET denied == requireAdmin(jwt)
  IN /\ server.pc = "idle"
     /\ session["s1"].pc = "idle"
     /\ server' =
          IF denied # "none"
          THEN [IdleServer EXCEPT !.op = "reject", !.jwt = jwt, !.cid = cid,
                                  !.ret = ActionFailed(denied)]
          ELSE [IdleServer EXCEPT !.pc = "rpc", !.op = "reject", !.jwt = jwt,
                                  !.cid = cid, !.reason = reason]
     /\ session' = [session EXCEPT !["s1"] = IdleSession]
     /\ UNCHANGED <<refactored, contributions, classifications, nextClassId,
                    review_history, rowOps>>
     /\ UNCHANGED queueVars

\* the request does not reach the database: rpc resolves with an error
RpcTransportFails ==
  /\ server.pc = "rpc"
  /\ session["s1"] = IdleSession
  /\ server' = [server EXCEPT !.pc = "idle", !.reason = NULL, !.transport = "failed",
                              !.ret = ActionFailed("Failed to reject contribution")]
  /\ UNCHANGED <<refactored, contributions, classifications, nextClassId,
                 review_history, session, rowOps>>
  /\ UNCHANGED queueVars

\* the request reaches the database and reject_contribution starts
RpcCall ==
  /\ server.pc = "rpc"
  /\ session["s1"] = IdleSession
  /\ Call("s1", server.jwt, "reject",
          RejectRpcArgs(server.jwt, server.cid, server.reason))

RpcUpdate == server.pc = "rpc" /\ UpdateStatus("s1")

RpcComplete == server.pc = "rpc" /\ Complete("s1")

IgnoreResult(result) == FALSE

\* if (result && 'success' in result) { if (!result.success) throw ... }
ResultRefused(result) == ~result.success

\* the procedure has returned: the response arrives or is lost, and the
\* action returns its result
RpcReturn(arrives) ==
  LET result == session["s1"].ret
  IN /\ server.pc = "rpc"
     /\ session["s1"].pc = "idle"
     /\ session["s1"] # IdleSession
     /\ server' = [server EXCEPT !.pc = "idle", !.reason = NULL,
          !.transport = IF arrives THEN "ok" ELSE "failed", !.ret =
          IF ~arrives THEN ActionFailed("Failed to reject contribution")
          ELSE IF ResultRefused(result) THEN ActionFailed(result.error)
          ELSE ActionSucceeded]
     /\ UNCHANGED <<refactored, contributions, classifications, nextClassId,
                    review_history, session, rowOps>>
     /\ UNCHANGED queueVars

ClassifyAction ==
  \E jwt \in ActionCallers, c \in ActionIds, d \in ClassificationData :
    classifyContribution(jwt, c, d)

RejectAction ==
  \E jwt \in ActionCallers, c \in ActionIds, r \in ReasonArgs :
    rejectContribution(jwt, c, r)

RpcAnswer == \E arrives \in BOOLEAN : RpcReturn(arrives)

NextApp ==
  \/ ClassifyAction
  \/ RejectAction
  \/ RpcTransportFails
  \/ RpcCall
  \/ RpcUpdate
  \/ RpcComplete
  \/ RpcAnswer
  \/ refactor_contributions_schema

SpecApp == Init /\ [][NextApp]_vars

\* ------------------------------------------------------------------------
\* Steps in which a call returns
\* ------------------------------------------------------------------------
Returns(s) == session[s].pc # "idle" /\ session'[s].pc = "idle"

ReturnsSuccess(s, op) ==
  /\ Returns(s)
  /\ session[s].op = op
  /\ session'[s].ret.success

LastHistory == review_history[Len(review_history)]

\* ------------------------------------------------------------------------
\* C1: after a successful classify_contribution call exactly one
\* classification row exists for the contribution, and the call appended
\* exactly one review-history row, whose action is 'reclassified' if the
\* status before the call was 'classified' and 'classified' otherwise.
\* ------------------------------------------------------------------------
C1_ClassifyPostcondition ==
  [][ \A s \in Sessions :
        ReturnsSuccess(s, "classify") =>
          LET cid == session[s].p.p_contribution_id
              before == session[s].sp.status
          IN /\ Cardinality(ClassificationOf(classifications', cid)) = 1
             /\ Len(review_history') = Len(review_history) + 1
             /\ SubSeq(review_history', 1, Len(review_history)) = review_history
             /\ review_history'[Len(review_history')].contribution_id = cid
             /\ review_history'[Len(review_history')].action =
                  (IF before = "classified" THEN "reclassified" ELSE "classified")
    ]_vars

\* a classify has succeeded on a rejected and then on a classified contribution
C1_Witness ==
  /\ Len(review_history) = 3
  /\ session["s1"].ret.success
  /\ review_history[2].action = "classified"
  /\ review_history[2].previous_status = "rejected"
  /\ review_history[3].action = "reclassified"
  /\ review_history[3].contribution_id = review_history[2].contribution_id
  /\ Cardinality(ClassificationOf(classifications, review_history[3].contribution_id)) = 1

\* ------------------------------------------------------------------------
\* C2: after a successful reject_contribution call the contribution's
\* status is 'rejected', it has no classification row, and the call
\* appended exactly one review-history row with action 'rejected' that
\* carries the given reason.
\* ------------------------------------------------------------------------
C2_RejectPostcondition ==
  [][ \A s \in Sessions :
        ReturnsSuccess(s, "reject") =>
          LET cid == session[s].p.p_contribution_id
          IN /\ contributions'[cid].status = "rejected"
             /\ ClassificationOf(classifications', cid) = {}
             /\ Len(review_history') = Len(review_history) + 1
             /\ SubSeq(review_history', 1, Len(review_history)) = review_history
             /\ review_history'[Len(review_history')].contribution_id = cid
             /\ review_history'[Len(review_history')].action = "rejected"
             /\ review_history'[Len(review_history')].reason = session[s].p.p_reason
    ]_vars

\* a classified contribution has been rejected with a reason
C2_Witness ==
  /\ Len(review_history) >= 2
  /\ session["s1"].ret.success
  /\ LastHistory.action = "rejected"
  /\ LastHistory.previous_status = "classified"
  /\ LastHistory.reason = "r1"
  /\ ClassificationOf(classifications, LastHistory.contribution_id) = {}
  /\ contributions[LastHistory.contribution_id].status = "rejected"

\* ------------------------------------------------------------------------
\* C3: for a caller whose role is 'admin' in neither app_metadata nor
\* user_metadata (a token without any role claim included),
\* classify_contribution and reject_contribution return a failure result
\* and leave contributions, classifications and review_history unchanged.
\* ------------------------------------------------------------------------
ClaimsAdmin(jwt) == jwt.app_role = "admin" \/ jwt.user_role = "admin"

C3_NonAdminDenied ==
  [][ \A s \in Sessions :
        (Returns(s) /\ ~ClaimsAdmin(session[s].jwt)) =>
          /\ ~session'[s].ret.success
          /\ review_history' = review_history
          /\ classifications' = classifications
          /\ \A c \in DOMAIN contributions : contributions'[c].status = CommittedRow(c).status
    ]_vars

\* ------------------------------------------------------------------------
\* C4: classify_contribution and reject_contribution are all-or-nothing:
\* a call that fails at any step returns {success: false, error} and leaves
\* the contribution, its classification row and the review history exactly
\* as they were before the call.
\* ------------------------------------------------------------------------
C4_AllOrNothing ==
  [][ \A s \in Sessions :
        (session'[s].pc = "idle" /\ session'[s] # session[s]
           /\ ~session'[s].ret.success) =>
          LET cid == session[s].p.p_contribution_id
          IN /\ session'[s].ret.error # "none"
             /\ review_history' = review_history
             /\ classifications' = classifications
             /\ contributions' =
                  IF session[s].pc = "updated"
                  THEN [contributions EXCEPT ![cid] = session[s].sp]
                  ELSE contributions
             /\ session[s].pc = "updated" =>
                  session[s].sp.status = session[s].v_old_status
    ]_vars

\* a reject failed on its history insert, after it had updated the status of
\* a classified contribution and deleted its classification
C4_Witness ==
  /\ session["s1"].pc = "idle"
  /\ session["s1"].ret.error = "review_history constraint"
  /\ \A c \in ExistingIds :
       /\ contributions[c].status = "classified"
       /\ ClassificationOf(classifications, c) # {}

\* ------------------------------------------------------------------------
\* C8: for any interleaving of two concurrent successful classify / reject
\* calls on the same contribution no history entry is lost (each call
\* appends its own row and keeps every earlier row), and the status and the
\* classification content are those of the call whose writes took effect
\* last.
\* ------------------------------------------------------------------------
C8_ConcurrentCalls ==
  [][ \A s \in Sessions :
        (Returns(s) /\ session'[s].ret.success) =>
          LET p == session[s].p
              cid == p.p_contribution_id
              op == session[s].op
          IN /\ review_history' =
                  Append(review_history, HistoryRow(op, p, session[s].v_old_status))
             /\ contributions'[cid].status =
                  (IF op = "classify" THEN "classified" ELSE "rejected")
             /\ IF op = "reject"
                THEN ClassificationOf(classifications', cid) = {}
                ELSE \E r \in classifications' :
                       /\ ClassificationOf(classifications', cid) = {r}
                       /\ r.brand = p.p_brand
                       /\ r.manufacturer = p.p_manufacturer
                       /\ r.plastic_type = p.p_plastic_type
                       /\ r.confidence_level = p.p_confidence_level
                       /\ r.classified_by = p.p_admin_id
    ]_vars

\* two classify calls on c1 overlapped (both read 'pending' before either
\* wrote) and both have returned: two history rows, the later call's content
C8_Witness ==
  /\ Len(review_history) = 2
  /\ \A s \in Sessions : session[s].pc = "idle" /\ session[s].ret.success
  /\ \A i \in 1..2 :
       /\ review_history[i].contribution_id = "c1"
       /\ review_history[i].previous_status = "pending"
       /\ review_history[i].new_status = "classified"
  /\ review_history[1].changes.brand # review_history[2].changes.brand
  /\ \E r \in classifications :
       /\ ClassificationOf(classifications, "c1") = {r}
       /\ r.brand = review_history[2].changes.brand

\* ------------------------------------------------------------------------
\* C9: the review history is append-only: across classify, reject and the
\* row-level statements of owners, admins and the public, a review-history
\* row once written is never changed and never removed.
\* ------------------------------------------------------------------------
C9_HistoryAppendOnly ==
  [][ /\ Len(review_history') >= Len(review_history)
      /\ SubSeq(review_history', 1, Len(review_history)) = review_history
    ]_vars

\* an admin has sent a DELETE to review_history, which held a row written by
\* the engine and a row inserted directly, and no row was affected
C9_Witness ==
  /\ rowOps.last = "delete review_history"
  /\ rowOps.by = "u1"
  /\ rowOps.rows = 0
  /\ Len(review_history) >= 2
  /\ \E i \in 1..Len(review_history) : review_history[i].action = "updated"
  /\ \E i \in 1..Len(review_history) : review_history[i].action = "classified"

\* ------------------------------------------------------------------------
\* C10: there is at most one classification row per contribution; a
\* classify on a contribution that already has a classification overwrites
\* that row in place (same row, every verified field replaced by the new
\* call's values) and adds no second row.
\* ------------------------------------------------------------------------
C10_OneClassification ==
  [][ /\ \A c \in ContributionIds :
           Cardinality(ClassificationOf(classifications', c)) <= 1
      /\ \A s \in Sessions :
           (ReturnsSuccess(s, "classify")
              /\ ClassificationOf(classifications, session[s].p.p_contribution_id) # {}) =>
             \E old \in ClassificationOf(classifications, session[s].p.p_contribution_id) :
               /\ classifications' =
                    (classifications \ {old}) \cup
                      {NewClassification(old.id, VerifiedFields(session[s].p))}
               /\ session'[s].ret.classification_id = old.id
    ]_vars

\* a classified contribution has been classified again with another brand:
\* still the one row inserted first, now with the new brand
C10_Witness ==
  /\ Len(review_history) >= 2
  /\ LastHistory.action = "reclassified"
  /\ session["s1"].pc = "idle"
  /\ session["s1"].ret.success
  /\ session["s1"].ret.classification_id = 1
  /\ nextClassId = 2
  /\ \E i \in 1..Len(review_history) - 1 :
       /\ review_history[i].contribution_id = LastHistory.contribution_id
       /\ review_history[i].action = "classified"
       /\ review_history[i].changes.brand # LastHistory.changes.brand
  /\ \E r \in classifications :
       /\ classifications = {r}
       /\ r.id = 1
       /\ r.brand = LastHistory.changes.brand

\* ------------------------------------------------------------------------
\* C5: no queued submission is ever lost: under any interleaving of
\* saveToOfflineQueue with the status updates and removals of a running
\* pass, and also when a local read fails and yields an empty list, every
\* item saveToOfflineQueue has stored is still in the local queue or has had
\* its remote contribution record inserted.
\* ------------------------------------------------------------------------
RemoteCount(id) == Cardinality({ i \in 1..Len(remote) : remote[i].localId = id })

C5_NoItemLost ==
  \A id \in created : id \in DOMAIN idb \/ RemoteCount(id) >= 1

\* ------------------------------------------------------------------------
\* C6: retry is idempotent: across any number of passes, with a failure
\* possible at any step of an attempt, each queued item causes at most one
\* remote contribution record to be inserted.
\* ------------------------------------------------------------------------
C6_AtMostOneRemoteRecord ==
  \A id \in created : RemoteCount(id) <= 1

\* ------------------------------------------------------------------------
\* C7: at most one sync pass runs at a time: a syncQueue call made while a
\* pass is in progress returns {total: 0, completed: 0, failed: 0} and
\* touches neither the queue nor the remote store.
\* ------------------------------------------------------------------------
C7_OnePassAtATime ==
  [][ /\ Cardinality({ p \in Passes : Active(p)' }) <= 1
      /\ \A p \in Passes :
           ((\E o \in Passes : Active(o)) /\ ~Active(p) /\ pass'[p] # pass[p]) =>
             /\ pass'[p].pc = "done"
             /\ pass'[p].stats = ZeroStats
             /\ UNCHANGED <<idb, remote, isSyncing>>
    ]_vars

\* while a pass is inserting an item remotely, the other invocation has
\* returned zero stats
C7_Witness ==
  /\ online
  /\ pass["p1"].pc = "insert"
  /\ pass["p2"].pc = "done"
  /\ pass["p2"].stats = ZeroStats
  /\ isSyncing
  /\ Len(remote) = 1

\* ------------------------------------------------------------------------
\* C11: rejecting, then classifying, then rejecting the same contribution,
\* each call successful and the contribution's history empty at the start,
\* yields three history rows for it, final status 'rejected' and no
\* classification row.
\* ------------------------------------------------------------------------
HistoryOf(h, cid) == SelectSeq(h, LAMBDA r : r.contribution_id = cid)

C11_RejectClassifyReject ==
  [][ \A s \in Sessions :
        LET cid == session[s].p.p_contribution_id
            h == HistoryOf(review_history, cid)
        IN (/\ ReturnsSuccess(s, "reject")
            /\ Len(h) = 2
            /\ h[1].new_status = "rejected"
            /\ h[2].new_status = "classified") =>
             LET h3 == HistoryOf(review_history', cid)
             IN /\ Len(h3) = 3
                /\ <<h3[1].action, h3[2].action, h3[3].action>> =
                     <<"rejected", "classified", "rejected">>
                /\ <<h3[1].previous_status, h3[2].previous_status,
                     h3[3].previous_status>> = <<"pending", "rejected", "classified">>
                /\ contributions'[cid].status = "rejected"
                /\ ClassificationOf(classifications', cid) = {}
    ]_vars

\* c1 has been rejected, classified and rejected again, every call successful
C11_Witness ==
  /\ Len(review_history) = 3
  /\ \A i \in 1..3 : review_history[i].contribution_id = "c1"
  /\ review_history[1].action = "rejected"
  /\ review_history[2].action = "classified"
  /\ review_history[3].action = "rejected"
  /\ session["s1"].pc = "idle"
  /\ session["s1"].ret.success
  /\ contributions["c1"].status = "rejected"
  /\ classifications = {}

\* ------------------------------------------------------------------------
\* C12: a classify call by an admin with a confidence level outside
\* {high, medium, low} returns {success: false} and leaves contributions,
\* classifications and review_history unchanged.
\* ------------------------------------------------------------------------
\* the step in which a classify call of caller jwt with arguments p returns
ClassifyEnds(s, jwt, p) ==
  \/ Call(s, jwt, "classify", p) /\ session'[s].pc = "idle"
  \/ /\ Returns(s)
     /\ session[s].op = "classify"
     /\ session[s].jwt = jwt
     /\ session[s].p = p

C12_InvalidConfidenceRefused ==
  [][ \A s \in Sessions, jwt \in Tokens, p \in ClassifyArgs :
        (/\ IsTrue(is_admin(jwt))
         /\ p.p_confidence_level \notin ConfidenceLevels
         /\ ClassifyEnds(s, jwt, p)) =>
          /\ ~session'[s].ret.success
          /\ review_history' = review_history
          /\ classifications' = classifications
          /\ \A c \in DOMAIN contributions :
               contributions'[c].status = CommittedRow(c).status
    ]_vars

\* ------------------------------------------------------------------------
\* C18: a syncQueue call made while the device is offline returns
\* {total: 0, completed: 0, failed: 0} at once, does not set the in-progress
\* flag, changes no queue item and makes no upload or remote insert; the
\* request is not remembered: coming back online starts nothing by itself.
\* ------------------------------------------------------------------------
C18_OfflineCallIsNoOp ==
  [][ /\ \A p \in Passes :
           (SyncCall(p) /\ ~online) =>
             /\ pass'[p] = [IdlePass EXCEPT !.pc = "done"]
             /\ pass'[p].stats = ZeroStats
             /\ \A o \in Passes \ {p} : pass'[o] = pass[o]
             /\ UNCHANGED <<isSyncing, idb, remote>>
      /\ (~online /\ online') => UNCHANGED <<pass, isSyncing, idb, remote>>
    ]_vars

\* offline, with a pending item queued and no pass in progress, a call has
\* returned zero stats and nothing has been synced
C18_Witness ==
  /\ ~online
  /\ ~isSyncing
  /\ pass["p1"] = [IdlePass EXCEPT !.pc = "done"]
  /\ pass["p2"] = IdlePass
  /\ remote = <<>>
  /\ DOMAIN idb = {1}
  /\ idb[1].status = "pending"
  /\ idb[1].retryCount = 0

\* ------------------------------------------------------------------------
\* C20: saveToOfflineQueue succeeds whatever the connectivity, returns an id
\* that no item already in the queue has, and the queue then holds an item
\* with that id, status 'pending', retryCount 0 and the form data and image
\* payloads that were passed in.
\* ------------------------------------------------------------------------
C20_SavedItemIsQueued ==
  [][ \A w \in Writers :
        (writer[w].pc = "write" /\ writer'[w].pc = "idle"
           /\ writer[w].id \in created') =>
          LET id == writer[w].id
          IN /\ id \notin DOMAIN idb
             /\ id \in DOMAIN idb'
             /\ idb'[id] = NewItem(id, writer[w].payload)
    ]_vars

\* ------------------------------------------------------------------------
\* C13: a completed pass over n eligible items, of which those in F fail
\* their image upload and the others succeed at every step, returns
\* {total: n, completed: n - |F|, failed: |F|}; every succeeded item is gone
\* from the local queue and every item of F is still queued with status
\* 'failed' and a retryCount one higher than before the pass.
\* ------------------------------------------------------------------------
\* the step in which the pass of invocation p returns its stats
PassCompletes(p) == Active(p) /\ pass'[p].pc = "done"

\* every failure since the call was the failed upload of an item of the pass
OnlyUploadsFailed(p) ==
  pass[p].start - faults' = Cardinality(pass[p].uploadFailed)

C13_PassOutcome ==
  [][ \A p \in Passes :
        (PassCompletes(p) /\ OnlyUploadsFailed(p)) =>
          LET r == pass[p]
              n == Len(r.items)
              F == r.uploadFailed
          IN /\ pass'[p].stats =
                  [total |-> n, completed |-> n - Cardinality(F),
                   failed |-> Cardinality(F)]
             /\ \A k \in 1..n :
                  LET id == r.items[k]
                  IN IF id \in F
                     THEN /\ id \in DOMAIN idb'
                          /\ idb'[id].status = "failed"
                          /\ idb'[id].retryCount = r.before[id] + 1
                     ELSE id \notin DOMAIN idb'
    ]_vars

\* a pass over two items has returned: the upload of item 1 failed, item 2
\* was synced
C13_Witness ==
  /\ \E p \in Passes : pass[p].pc = "done" /\ pass[p].stats =
       [total |-> 2, completed |-> 1, failed |-> 1]
  /\ ~isSyncing
  /\ DOMAIN idb = {1}
  /\ idb[1].status = "failed"
  /\ idb[1].retryCount = 1
  /\ Len(remote) = 1
  /\ remote[1].localId = 2
  /\ faults = MaxPassFaults - 1

\* ------------------------------------------------------------------------
\* C14: when a step of the attempt on an item fails (image upload, remote
\* insert or a local status update), the item is not removed: it stays in
\* the local queue with status 'failed', the error recorded and retryCount
\* incremented by exactly one, and the next pass selects it again.
\* ------------------------------------------------------------------------
\* the step in which the catch block of the loop is left, for any reason
LeavesHandler(p) ==
  /\ pass[p].pc \in {"status read", "status write"}
  /\ pass[p].target = "failed"
  /\ pass'[p] # pass[p]
  /\ pass'[p].pc \notin {"status write", "idle"}

C14_FailedItemKept ==
  [][ \A p \in Passes :
        (LeavesHandler(p) /\ ~NotifyThrows) =>
          LET id == CurrentId(pass[p])
          IN /\ id \in DOMAIN idb'
             /\ idb'[id].status = "failed"
             /\ idb'[id].error # NULL
             /\ idb'[id].retryCount = pass[p].before[id] + 1
             /\ id \in Eligible(idb')
    ]_vars

\* ------------------------------------------------------------------------
\* C15: a failure while syncing one item never aborts the pass: whatever
\* step of item k fails, every later item of the snapshot is still attempted
\* and the pass returns totals covering all selected items.
\* ------------------------------------------------------------------------
C15_PassNotAborted ==
  [][ \A p \in Passes :
        (Active(p) /\ pass[p].pc # "snapshot" /\ ~NotifyThrows) =>
          /\ pass'[p].pc # "dead"
          /\ pass'[p].pc = "done" =>
               /\ pass[p].i = Len(pass[p].items)
               /\ pass'[p].stats.total = Len(pass[p].items)
               /\ pass'[p].stats.completed + pass'[p].stats.failed =
                    Len(pass[p].items)
    ]_vars

\* ------------------------------------------------------------------------
\* C19: a pass selects exactly the items whose status is 'pending' or
\* 'failed' at its snapshot; a 'failed' item is selected again by every new
\* pass whatever its retryCount, and items in status 'uploading' or
\* 'completed' are never selected.
\* ------------------------------------------------------------------------
Selected(r) == { r.items[k] : k \in 1..Len(r.items) }

C19_Selection ==
  [][ \A p \in Passes :
        (pass[p].pc = "snapshot" /\ pass'[p].pc \in {"status read", "done"}
           /\ faults' = faults) =>
          LET sel == IF pass'[p].pc = "done" THEN {} ELSE Selected(pass'[p])
          IN /\ sel \subseteq DOMAIN idb
             /\ \A id \in DOMAIN idb :
                  /\ idb[id].status \in {"pending", "failed"} => id \in sel
                  /\ idb[id].status \in {"uploading", "completed"} => id \notin sel
    ]_vars

\* a new pass has selected item 1, which failed before, and not item 2,
\* which a reload left in status 'uploading'
C19_Witness ==
  /\ \E p \in Passes :
       /\ pass[p].pc = "status read"
       /\ pass[p].i = 1
       /\ pass[p].target = "uploading"
       /\ pass[p].items = <<1>>
  /\ DOMAIN idb = {1, 2}
  /\ idb[1].status = "failed"
  /\ idb[1].retryCount = 1
  /\ idb[2].status = "uploading"

\* ------------------------------------------------------------------------
\* C16: every sync pass that starts eventually ends with the in-progress
\* flag cleared, whatever fails during the pass (a failing local status
\* write in the failure handler and a throwing progress subscriber
\* included), so that a later trigger can start a new pass.
\* ------------------------------------------------------------------------
C16_PassEnds == \A p \in Passes : Active(p) ~> ~isSyncing

\* ------------------------------------------------------------------------
\* C17: the queue is eventually drained: with triggers that keep occurring
\* while online and uploads and inserts that eventually succeed, every item
\* of the local queue eventually has its remote record inserted and is
\* removed from the queue, items present at a crash or reload included.
\* ------------------------------------------------------------------------
C17_QueueDrained ==
  \A id \in 1..MaxItems :
    (id \in DOMAIN idb) ~> (id \notin DOMAIN idb /\ RemoteCount(id) >= 1)

\* ------------------------------------------------------------------------
\* C21: updateQueueItemStatus(id, status, error) changes only the item with
\* that id: it sets the status, adds one to retryCount iff the new status is
\* 'failed', keeps the item queued, and leaves every other item and the set
\* of queued ids as they were; for an id that is not queued it changes
\* nothing.
\* ------------------------------------------------------------------------
\* the step in which the rewrite of updateQueueItemStatus reaches the store
StatusStored(p) ==
  /\ pass[p].pc = "status write"
  /\ pass'[p] # pass[p]
  /\ faults' = faults

C21_StatusUpdateFrame ==
  [][ \A p \in Passes :
        /\ (pass[p].pc = "status read" /\ pass'[p] # pass[p]) => idb' = idb
        /\ StatusStored(p) =>
             LET id == CurrentId(pass[p])
             IN /\ DOMAIN idb' = DOMAIN idb
                /\ \A j \in DOMAIN idb \ {id} : idb'[j] = idb[j]
                /\ id \in DOMAIN idb =>
                     /\ idb'[id].status = pass[p].target
                     /\ idb'[id].retryCount =
                          idb[id].retryCount +
                            (IF pass[p].target = "failed" THEN 1 ELSE 0)
                     /\ idb'[id].payload = idb[id].payload
    ]_vars

\* ------------------------------------------------------------------------
\* C22: a submitter who is not an admin may update or delete a contribution
\* only if they own it and its status is 'pending'; once it is classified or
\* rejected every UPDATE or DELETE by its owner is denied by the policies,
\* while the owner can read it in every status.
\* ------------------------------------------------------------------------
\* the statement on contributions that the step issues, if any
Issued(op) == rowOps' # rowOps /\ rowOps'.last = op

C22_OwnerPendingOnly ==
  [][ LET by == rowOps'.by
          c == rowOps'.on
          rows == rowOps'.rows
      IN /\ ((Issued("update contributions") \/ Issued("delete contributions"))
               /\ \A jwt \in RowTokens : jwt.uid = by => ~ClaimsAdmin(jwt)) =>
              /\ rows = 1 =>
                   contributions[c].user_id = by /\ contributions[c].status = "pending"
              /\ contributions[c].status # "pending" => rows = 0
              /\ rows = 0 => contributions' = contributions
              /\ \A d \in DOMAIN contributions :
                   (d \notin DOMAIN contributions' \/ contributions'[d] # contributions[d])
                     => d = c
         /\ (Issued("select contributions") /\ contributions[c].user_id = by) =>
              rows = 1
    ]_vars

\* the owner's UPDATE of their contribution, by then classified, has just
\* been denied, after an UPDATE of theirs went through while it was pending
C22_Witness ==
  /\ rowOps = [n |-> 2, last |-> "update contributions", by |-> "u3", on |-> "c1",
               rows |-> 0]
  /\ "c1" \in DOMAIN contributions
  /\ contributions["c1"].status = "classified"
  /\ contributions["c1"].notes = "edited"
  /\ contributions["c1"].user_id = "u3"
  /\ Len(review_history) = 1

\* ------------------------------------------------------------------------
\* C23: the contribution state machine has no terminal state: from each of
\* pending, classified and rejected a classify by an admin with valid input
\* succeeds and leads to 'classified', and a reject by an admin succeeds and
\* leads to 'rejected'; the status is always one of the three values and no
\* engine operation returns a contribution to 'pending'.
\* ------------------------------------------------------------------------
ValidInput(op, p) ==
  /\ p.p_contribution_id \in ExistingIds
  /\ p.p_admin_id \in Users
  /\ op = "classify" =>
       /\ p.p_brand # NULL
       /\ p.p_manufacturer # NULL
       /\ p.p_confidence_level \in ConfidenceLevels

NewStatus(op) == IF op = "classify" THEN "classified" ELSE "rejected"

C23_NoTerminalState ==
  [][ /\ \A s \in Sessions :
           (Returns(s) /\ ClaimsAdmin(session[s].jwt)
              /\ ValidInput(session[s].op, session[s].p)) =>
             /\ session'[s].ret.success
             /\ contributions'[session[s].p.p_contribution_id].status =
                  NewStatus(session[s].op)
      /\ \A c \in DOMAIN contributions :
           /\ CommittedRow(c)'.status \in Statuses
           /\ CommittedRow(c).status # "pending" => CommittedRow(c)'.status # "pending"
    ]_vars

\* ------------------------------------------------------------------------
\* C24: is_admin() yields a definite boolean for every combination of
\* present or absent role claims: true when the app_metadata role is
\* 'admin', otherwise true iff the user_metadata role is 'admin', and false
\* in every other case.
\* ------------------------------------------------------------------------
DefiniteIsAdmin(jwt) ==
  IF jwt.app_role = "admin" \/ jwt.user_role = "admin" THEN "true" ELSE "false"

\* checked on the token of every call that is_admin() has let through
C24_IsAdminDefinite ==
  \A s \in Sessions :
    session[s].pc # "idle" => is_admin(session[s].jwt) = DefiniteIsAdmin(session[s].jwt)

\* ------------------------------------------------------------------------
\* C25: in every reachable state every classification row has a confidence
\* level that is one of high, medium, low, whatever value (an absent or
\* null one included) was passed to classify_contribution; an omitted
\* argument is stored as 'medium'.
\* ------------------------------------------------------------------------
C25_ConfidenceEnumerated ==
  \A r \in classifications : r.confidence_level \in ConfidenceLevels

\* ------------------------------------------------------------------------
\* C26: in every review-history row written by classify_contribution or
\* reject_contribution, previous_status is the status the contribution had
\* immediately before that call's own status update took effect, and the
\* action is 'reclassified' exactly when that status was 'classified'; also
\* when two calls on the same contribution run concurrently.
\* ------------------------------------------------------------------------
C26_PreviousStatus ==
  [][ \A s \in Sessions :
        (Returns(s) /\ session'[s].ret.success) =>
          LET row == review_history'[Len(review_history')]
              before == session[s].sp.status
          IN /\ row.previous_status = before
             /\ (row.action = "reclassified") <=>
                  (session[s].op = "classify" /\ before = "classified")
    ]_vars

\* ------------------------------------------------------------------------
\* C27: in every state reachable by any sequence and any interleaving of
\* classify_contribution and reject_contribution calls, starting from
\* pending contributions without classifications, a contribution has a
\* classification row if and only if its status is 'classified'.
\* ------------------------------------------------------------------------
\* stated on what is committed: the rows as a third transaction sees them
C27_ClassificationIffClassified ==
  \A c \in DOMAIN contributions :
    (ClassificationOf(classifications, c) # {}) <=>
      (CommittedRow(c).status = "classified")

\* a classify and a reject of c1 that both read 'pending' have both committed
C27_Witness ==
  /\ Len(review_history) = 2
  /\ review_history[1].contribution_id = "c1"
  /\ review_history[2].contribution_id = "c1"
  /\ review_history[1].action = "classified"
  /\ review_history[2].action = "rejected"
  /\ review_history[2].previous_status = "pending"
  /\ contributions["c1"].status = "rejected"
  /\ ClassificationOf(classifications, "c1") = {}
  /\ InFlight = {}

\* ------------------------------------------------------------------------
\* C28: whenever the classifyContribution server action reports success, the
\* contribution's status is 'classified', a classification row exists for
\* it, and exactly one review-history entry was appended for that action.
\* ------------------------------------------------------------------------
ClassifyReported ==
  /\ server'.op = "classify"
  /\ server'.ret.success
  /\ refactored' = refactored

C28_ClassifyThroughEngine ==
  [][ ClassifyReported =>
        LET c == server'.cid
        IN /\ c \in DOMAIN contributions'
           /\ contributions'[c].status = "classified"
           /\ ClassificationOf(classifications', c) # {}
           /\ Len(review_history') = Len(review_history) + 1
           /\ review_history'[Len(review_history')].contribution_id = c ]_vars

\* ------------------------------------------------------------------------
\* C29: the rejectContribution server action returns {success: true} only
\* if the caller passed requireAdmin and the reject_contribution procedure
\* returned success; when the RPC transport fails or the procedure returns
\* {success: false}, the action returns {success: false, error}; it never
\* throws.
\* ------------------------------------------------------------------------
RejectReturns ==
  /\ server'.op = "reject"
  /\ server'.pc = "idle"
  /\ server' # server

C29_RejectResult ==
  [][ RejectReturns =>
        LET result == session["s1"].ret
            out == server'.ret
        IN /\ ~out.thrown
           /\ out.success =>
                /\ requireAdmin(server'.jwt) = "none"
                /\ server.pc = "rpc"
                /\ session["s1"].pc = "idle"
                /\ result.success
           /\ (server.pc = "rpc" /\ (server'.transport = "failed" \/ ~result.success))
                => (~out.success /\ out.error # "none") ]_vars

C29_Witness ==
  /\ server.op = "reject"
  /\ server.pc = "idle"
  /\ server.ret.success
  /\ server.cid = "c1"
  /\ contributions["c1"].status = "rejected"
  /\ Len(review_history) = 1

\* ------------------------------------------------------------------------
\* C30: a remote contribution record is inserted for a queued item only
\* after every image present on the item has been uploaded successfully in
\* that attempt; when one of the item's uploads fails the attempt inserts no
\* remote record; and the inserted record has status 'pending'.
\* ------------------------------------------------------------------------
RecordInserted == Len(remote') = Len(remote) + 1

UploadsRejected(p) ==
  /\ pass[p].pc = "upload"
  /\ pass'[p].pc \notin {"upload", "insert"}

C30_InsertAfterUploads ==
  [][ /\ RecordInserted =>
          LET rec == remote'[Len(remote')]
          IN /\ rec.status = "pending"
             /\ \E p \in Passes :
                  /\ pass[p].pc = "insert"
                  /\ pass'[p].pc # "insert"
                  /\ CurrentId(pass[p]) = rec.localId
                  /\ pass[p].uploaded = pass[p].images[rec.localId]
      /\ \A p \in Passes :
           UploadsRejected(p) =>
             /\ remote' = remote
             /\ pass'[p].uploaded = {}
      /\ \A p \in Passes :
           (pass[p].pc # "insert" /\ pass'[p].pc = "insert") =>
             (pass[p].pc = "upload" /\ pass'[p].i = pass[p].i) ]_vars

\* item 1 failed once at the upload and a second attempt has inserted its
\* record after both images were uploaded
C30_Witness ==
  /\ Len(remote) = 1
  /\ remote[1] = [localId |-> 1, status |-> "pending"]
  /\ \E p \in Passes :
       /\ pass[p].pc = "status read"
       /\ pass[p].target = "completed"
       /\ CurrentId(pass[p]) = 1
       /\ pass[p].before[1] = 1
       /\ pass[p].images[1] = {"productImage", "recyclingImage"}

\* ------------------------------------------------------------------------
\* C31: an item leaves the local queue only in the removal step of a pass
\* that is working on it, after the item's remote insert succeeded and its
\* status was recorded as 'completed'; nothing else removes items.
\* ------------------------------------------------------------------------
RemovedBySync(id) ==
  \E p \in Passes :
    /\ pass[p].pc = "remove"
    /\ pass'[p].pc # "remove"
    /\ CurrentId(pass[p]) = id

C31_RemovedOnlyAfterSync ==
  [][ \A id \in DOMAIN idb :
        id \notin DOMAIN idb' =>
          /\ RemovedBySync(id)
          /\ RemoteCount(id) >= 1
          /\ idb[id].status = "completed" ]_vars

\* ------------------------------------------------------------------------
\* C32: a pass works on the snapshot taken at its start: an item stored in
\* the queue while the pass is running is not attempted by that pass and,
\* when the pass ends, is still in the local queue with status 'pending'
\* (so that the next pass selects it).
\* ------------------------------------------------------------------------
PassEnds(p) == PastSnapshot(p) /\ pass'[p].pc = "done"

C32_SnapshotPass ==
  [][ \A p \in Passes :
        /\ PastSnapshot(p) =>
             \A id \in pass[p].late :
               \A k \in 1..Len(pass[p].items) : pass[p].items[k] # id
        /\ PassEnds(p) =>
             \A id \in pass[p].late :
               /\ id \in DOMAIN idb'
               /\ idb'[id].status = "pending"
               /\ id \in Eligible(idb') ]_vars

\* ------------------------------------------------------------------------
\* C33: within a pass the items are attempted one at a time in the order of
\* the listing: the pass goes from item k to item k+1 only, and only when
\* item k has been removed from the queue or marked 'failed'.
\* ------------------------------------------------------------------------
Advances(p) ==
  /\ PastSnapshot(p)
  /\ pass[p].i >= 1
  /\ pass'[p].i = pass[p].i + 1

Settled(q, id) == id \notin DOMAIN q \/ q[id].status = "failed"

C33_OneAtATime ==
  [][ \A p \in Passes :
        /\ (PastSnapshot(p) /\ PastSnapshot(p)') =>
             /\ pass'[p].items = pass[p].items
             /\ pass'[p].i \in {pass[p].i, pass[p].i + 1}
             /\ \A k \in 1..Len(pass[p].items) - 1 :
                  pass[p].items[k] < pass[p].items[k + 1]
        /\ Advances(p) => Settled(idb', CurrentId(pass[p])) ]_vars

\* ------------------------------------------------------------------------
\* C34: the running totals a pass notifies and returns: total is the number
\* of selected items throughout, completed + failed is i - 1 while the pass
\* works on its i-th item (the totals notified before that item and after
\* the one before it, so the notification after the i-th item has
\* completed + failed = i <= total), and the stats a finished pass returns
\* have completed + failed = total.
\* ------------------------------------------------------------------------
Counted(st) == st.completed + st.failed

C34_RunningTotals ==
  \A p \in Passes :
    /\ PastSnapshot(p) =>
         /\ pass[p].stats.total = Len(pass[p].items)
         /\ pass[p].i \in 1..pass[p].stats.total
         /\ Counted(pass[p].stats) = pass[p].i - 1
    /\ pass[p].pc = "done" => Counted(pass[p].stats) = pass[p].stats.total

\* a pass over two items has returned, one synced and one failed
C34_Witness ==
  \E p \in Passes :
    /\ pass[p].pc = "done"
    /\ pass[p].stats = [total |-> 2, completed |-> 1, failed |-> 1]

\* ------------------------------------------------------------------------
\* C35: the admin recorded in the review-history row, and as classified_by
\* on the classification row, that a classify_contribution or
\* reject_contribution call writes is the authenticated caller of that call.
\* ------------------------------------------------------------------------
C35_AttributedToCaller ==
  [][ \A s \in Sessions :
        (Returns(s) /\ session'[s].ret.success) =>
          LET caller == session[s].jwt.uid
              cid == session[s].p.p_contribution_id
          IN /\ review_history'[Len(review_history')].admin_id = caller
             /\ session[s].op = "classify" =>
                  \A k \in ClassificationOf(classifications', cid) :
                    k.classified_by = caller
    ]_vars

\* ------------------------------------------------------------------------
\* C36: for a contribution created as 'pending' and changed only by
\* classify_contribution and reject_contribution calls executed one after
\* the other, its review-history rows in order of writing form a chain: the
\* first row's previous_status is 'pending', each later row's
\* previous_status is the new_status of the row before it, and the last
\* row's new_status is the contribution's current status.
\* ------------------------------------------------------------------------
Chained(h, status) ==
  Len(h) > 0 =>
    /\ h[1].previous_status = "pending"
    /\ \A k \in 2..Len(h) : h[k].previous_status = h[k - 1].new_status
    /\ h[Len(h)].new_status = status

C36_HistoryChain ==
  \A c \in DOMAIN contributions :
    Chained(HistoryOf(review_history, c), CommittedRow(c).status)

\* c1 was classified, rejected and classified again
C36_Witness ==
  LET h == HistoryOf(review_history, "c1")
  IN /\ Len(h) = 3
     /\ h[1].action = "classified"
     /\ h[2].action = "rejected"
     /\ h[3].action = "classified"
     /\ contributions["c1"].status = "classified"
     /\ session["s1"].pc = "idle"

\* ------------------------------------------------------------------------
\* C37: no operation available to a non-admin changes a contribution's
\* status: an UPDATE by a caller without an admin role is accepted only if
\* the row is 'pending' before and after it, and every change of a
\* contribution's status is made by a caller with an admin role.
\* ------------------------------------------------------------------------
AdminUid(uid) == \A jwt \in RowTokens : jwt.uid = uid => ClaimsAdmin(jwt)

StatusChanged(c) ==
  /\ c \in DOMAIN contributions'
  /\ CommittedRow(c)'.status # CommittedRow(c).status

C37_StatusChangedByAdminOnly ==
  [][ /\ (Issued("update contributions") /\ ~AdminUid(rowOps'.by) /\ rowOps'.rows = 1) =>
           /\ contributions[rowOps'.on].status = "pending"
           /\ contributions'[rowOps'.on].status = "pending"
      /\ \A c \in DOMAIN contributions :
           StatusChanged(c) =>
             \/ \E s \in Sessions :
                  /\ Returns(s)
                  /\ session[s].p.p_contribution_id = c
                  /\ ClaimsAdmin(session[s].jwt)
             \/ /\ Issued("update contributions")
                /\ rowOps'.on = c
                /\ AdminUid(rowOps'.by) ]_vars

\* ------------------------------------------------------------------------
\* C38: an item that a pass has synced and removed from the local queue
\* never reappears in the queue, whatever the interleaving with a
\* saveToOfflineQueue or updateQueueItemStatus that read the queue before
\* the removal and rewrites it afterwards.
\* ------------------------------------------------------------------------
\* the item has its remote record, is gone from the queue, and no pass is
\* still working on it
SyncedAndRemoved(id) ==
  /\ id \notin DOMAIN idb
  /\ RemoteCount(id) >= 1
  /\ \A p \in Passes : PastSnapshot(p) => CurrentId(pass[p]) # id

C38_NoReappearance ==
  [][ \A id \in created : SyncedAndRemoved(id) => id \notin DOMAIN idb' ]_vars

\* ------------------------------------------------------------------------
\* C39: at most one item of the local queue has status 'uploading', and an
\* item has that status only while a sync pass is in progress and is
\* working on that item; with no pass in progress, also after a restart, no
\* item is 'uploading'.
\* ------------------------------------------------------------------------
Uploading == { id \in DOMAIN idb : idb[id].status = "uploading" }

C39_UploadingOnlyInPass ==
  /\ Cardinality(Uploading) <= 1
  /\ \A id \in Uploading :
       /\ isSyncing
       /\ \E p \in Passes : PastSnapshot(p) /\ CurrentId(pass[p]) = id

====
